---- MODULE Spec2Model ----
(***************************************************************************)
(* A model of noirsvortex.py: the interactive run of main() and the        *)
(* observations analyze_trend() computes from a table of daily rows.       *)
(*                                                                         *)
(* A table is a record [cols, rows]: cols is the set of column names the   *)
(* frame carries and rows its rows in index order, each a record           *)
(* [date, close, volume].  A date is a day number (calendar days), so that *)
(* "index[-1] - timedelta(days=d)" is date - d.  Closes and volumes are    *)
(* integers; every float the code computes from them is kept as an exact   *)
(* fraction [num, den], with 0/0 standing for NaN.  For the integers of    *)
(* the tables below the IEEE-754 comparisons of the code (>= r * 0.98,     *)
(* <= s * 1.02, ratio > 1.5, ratio < 0.7, mean comparisons) agree with the *)
(* comparisons of the exact fractions.  An observation holds the values    *)
(* handed to the f-string, not the digits ":.2f" renders.                  *)
(***************************************************************************)
EXTENDS Integers, Sequences, FiniteSets

VARIABLES pc, ticker, period, data, analysis, stdout, shown, exc

vars == <<pc, ticker, period, data, analysis, stdout, shown, exc>>

(***************************************************************************)
(* Program constants.                                                      *)
(***************************************************************************)
ShortWindow == 50
LongWindow == 200
RangeWindow == 20
WeekDays == 7
MonthDays == 30
YearDays == 365

(***************************************************************************)
(* Bounds of the model.                                                    *)
(***************************************************************************)
MaxShort == 22
MaxExtra == 2
YearRows == 252
MaxClose == 3
BasePrice == 100
MaxStep == 2
MaxSlope == 1
MaxVol == 4
MaxTail == 2

(***************************************************************************)
(* Fractions.  NaN is 0/0; a comparison with NaN is false, as in IEEE-754. *)
(***************************************************************************)
Frac(n, d) == [num |-> n, den |-> d]

NaN == Frac(0, 0)

IsNaN(x) == x.den = 0 /\ x.num = 0

\* x.den >= 0 always; n/0 with n # 0 is a signed infinity
Gt(x, y) ==
    /\ ~IsNaN(x)
    /\ ~IsNaN(y)
    /\ IF x.den = 0 /\ y.den = 0 THEN x.num > 0 /\ y.num < 0
       ELSE IF x.den = 0 THEN x.num > 0
       ELSE IF y.den = 0 THEN y.num < 0
       ELSE x.num * y.den > y.num * x.den

Lt(x, y) == Gt(y, x)

Eq(x, y) == ~IsNaN(x) /\ ~IsNaN(y) /\ ~Gt(x, y) /\ ~Gt(y, x)

Ge(x, y) == Gt(x, y) \/ Eq(x, y)

Le(x, y) == Ge(y, x)

\* numpy float division: x / 0 is inf, -inf or nan, never an exception
Div(x, y) ==
    IF IsNaN(x) \/ IsNaN(y) THEN NaN
    ELSE IF y.num >= 0 THEN Frac(x.num * y.den, x.den * y.num)
    ELSE Frac(-(x.num * y.den), -(x.den * y.num))

Times100(x) == Frac(x.num * 100, x.den)

Num(n) == Frac(n, 1)

(***************************************************************************)
(* Columns of a table.                                                     *)
(***************************************************************************)
AllCols == {"Close", "Volume"}

Rows(tbl) == Len(tbl.rows)

\* data.empty: an axis of length 0
Empty(tbl) == Rows(tbl) = 0 \/ tbl.cols = {}

Close(tbl, i) == tbl.rows[i].close

Volume(tbl, i) == tbl.rows[i].volume

Date(tbl, i) == tbl.rows[i].date

\* the sum of rows lo..hi of a column, halving the range
RECURSIVE SumClose(_, _, _)
SumClose(tbl, lo, hi) ==
    IF lo > hi THEN 0
    ELSE IF lo = hi THEN Close(tbl, lo)
    ELSE LET mid == (lo + hi) \div 2
         IN  SumClose(tbl, lo, mid) + SumClose(tbl, mid + 1, hi)

RECURSIVE SumVolume(_, _, _)
SumVolume(tbl, lo, hi) ==
    IF lo > hi THEN 0
    ELSE IF lo = hi THEN Volume(tbl, lo)
    ELSE LET mid == (lo + hi) \div 2
         IN  SumVolume(tbl, lo, mid) + SumVolume(tbl, mid + 1, hi)

\* data['Close'].rolling(window=w).mean() at row i: NaN until w rows exist
RollingMean(tbl, w, i) ==
    IF i < w THEN NaN ELSE Frac(SumClose(tbl, i - w + 1, i), w)

\* TailMin reaching one row further back
TailMinWider(tbl, k) ==
    LET n == Rows(tbl)
        T == {i \in (n - k)..n : i >= 1}
    IN  Close(tbl, CHOOSE i \in T : \A h \in T : Close(tbl, i) <= Close(tbl, h))

\* data['Close'].tail(k).min() and .max()
TailMin(tbl, k) ==
    LET n == Rows(tbl)
        T == (n - k + 1)..n
    IN  Close(tbl, CHOOSE i \in T : \A h \in T : Close(tbl, i) <= Close(tbl, h))

TailMax(tbl, k) ==
    LET n == Rows(tbl)
        T == (n - k + 1)..n
    IN  Close(tbl, CHOOSE i \in T : \A h \in T : Close(tbl, i) >= Close(tbl, h))

\* data['Volume'].mean()
MeanVolume(tbl) == Frac(SumVolume(tbl, 1, Rows(tbl)), Rows(tbl))

\* "'+' if x >= 0 else ''"
Sign(x) == IF Ge(x, Num(0)) THEN "+" ELSE ""

(***************************************************************************)
(* analyze_trend, section by section.  Each section is the sequence of     *)
(* observations it appends; lead says the text starts with a line break.   *)
(***************************************************************************)
Obs(k, l) == [kind |-> k, lead |-> l]

\* BasicInformation without the single-row fallback of prev_close
BasicInformationNoFallback(tbl) ==
    LET n == Rows(tbl)
        current_price == Close(tbl, n)
        prev_close == IF n > 1 THEN Close(tbl, n - 1) ELSE 0
        price_change == current_price - prev_close
        pct_change == Times100(Div(Num(price_change), Num(prev_close)))
    IN  << [kind |-> "price", lead |-> FALSE, val |-> Num(current_price)],
           [kind |-> "daily", lead |-> FALSE,
            sign |-> IF price_change >= 0 THEN "+" ELSE "",
            val |-> Num(price_change),
            pct_sign |-> Sign(pct_change), pct |-> pct_change] >>

BasicInformation(tbl) ==
    LET n == Rows(tbl)
        current_price == Close(tbl, n)
        prev_close == IF n > 1 THEN Close(tbl, n - 1) ELSE current_price
        price_change == current_price - prev_close
        pct_change == Times100(Div(Num(price_change), Num(prev_close)))
    IN  << [kind |-> "price", lead |-> FALSE, val |-> Num(current_price)],
           [kind |-> "daily", lead |-> FALSE,
            sign |-> IF price_change >= 0 THEN "+" ELSE "",
            val |-> Num(price_change),
            pct_sign |-> Sign(pct_change), pct |-> pct_change] >>

\* CrossSignal that looks at the last day only
CrossSignalLastDayOnly(ma50_now, ma200_now, ma50_prev, ma200_prev) ==
    IF Gt(ma50_now, ma200_now)
    THEN << Obs("golden", TRUE) >>
    ELSE IF Lt(ma50_now, ma200_now)
    THEN << Obs("death", TRUE) >>
    ELSE << >>

CrossSignal(ma50_now, ma200_now, ma50_prev, ma200_prev) ==
    IF Gt(ma50_now, ma200_now) /\ Le(ma50_prev, ma200_prev)
    THEN << Obs("golden", TRUE) >>
    ELSE IF Lt(ma50_now, ma200_now) /\ Ge(ma50_prev, ma200_prev)
    THEN << Obs("death", TRUE) >>
    ELSE << >>

\* MovingAverages guarded by the short window
MovingAveragesShortGuard(tbl) ==
    LET n == Rows(tbl)
    IN  IF n >= ShortWindow
        THEN LET current_ma50 == RollingMean(tbl, ShortWindow, n)
                 current_ma200 == RollingMean(tbl, LongWindow, n)
             IN  << [kind |-> "ma50", lead |-> TRUE, val |-> current_ma50],
                    [kind |-> "ma200", lead |-> FALSE, val |-> current_ma200] >>
                 \o CrossSignal(current_ma50, current_ma200,
                                RollingMean(tbl, ShortWindow, n - 1),
                                RollingMean(tbl, LongWindow, n - 1))
        ELSE << >>

MovingAverages(tbl) ==
    LET n == Rows(tbl)
    IN  IF n >= LongWindow
        THEN LET current_ma50 == RollingMean(tbl, ShortWindow, n)
                 current_ma200 == RollingMean(tbl, LongWindow, n)
             IN  << [kind |-> "ma50", lead |-> TRUE, val |-> current_ma50],
                    [kind |-> "ma200", lead |-> FALSE, val |-> current_ma200] >>
                 \o CrossSignal(current_ma50, current_ma200,
                                RollingMean(tbl, ShortWindow, n - 1),
                                RollingMean(tbl, LongWindow, n - 1))
        ELSE << >>

\* Lookback that falls back to the nearest earlier row
LookbackNearest(tbl, days, k, l) ==
    LET n == Rows(tbl)
        ago == Date(tbl, n) - days
        hit == {i \in 1..n : Date(tbl, i) <= ago}
    IN  IF hit # {}
        THEN LET ago_price == Close(tbl, CHOOSE i \in hit : \A h \in hit : h <= i)
                 change == Times100(Div(Num(Close(tbl, n) - ago_price),
                                        Num(ago_price)))
             IN  << [kind |-> k, lead |-> l, sign |-> Sign(change),
                     pct |-> change] >>
        ELSE << >>

\* "ago in data.index" and data.loc[ago, 'Close']
Lookback(tbl, days, k, l) ==
    LET n == Rows(tbl)
        ago == Date(tbl, n) - days
        hit == {i \in 1..n : Date(tbl, i) = ago}
    IN  IF hit # {}
        THEN LET ago_price == Close(tbl, CHOOSE i \in hit : TRUE)
                 change == Times100(Div(Num(Close(tbl, n) - ago_price),
                                        Num(ago_price)))
             IN  << [kind |-> k, lead |-> l, sign |-> Sign(change),
                     pct |-> change] >>
        ELSE << >>

RecentPerformance(tbl) ==
    Lookback(tbl, WeekDays, "week", TRUE)
    \o Lookback(tbl, MonthDays, "month", FALSE)
    \o Lookback(tbl, YearDays, "year", FALSE)

\* Proximity with two independent tests
ProximityIndependent(current_price, support, resistance) ==
    (IF current_price * 100 >= resistance * 98
     THEN << Obs("near_resistance", TRUE) >> ELSE << >>)
    \o (IF current_price * 100 <= support * 102
        THEN << Obs("near_support", TRUE) >> ELSE << >>)

Proximity(current_price, support, resistance) ==
    IF current_price * 100 >= resistance * 98
    THEN << Obs("near_resistance", TRUE) >>
    ELSE IF current_price * 100 <= support * 102
    THEN << Obs("near_support", TRUE) >>
    ELSE << >>

SupportResistance(tbl) ==
    LET n == Rows(tbl)
    IN  IF n >= RangeWindow
        THEN LET support == TailMin(tbl, RangeWindow)
                 resistance == TailMax(tbl, RangeWindow)
             IN  << [kind |-> "support", lead |-> TRUE, val |-> Num(support)],
                    [kind |-> "resistance", lead |-> FALSE,
                     val |-> Num(resistance)] >>
                 \o Proximity(Close(tbl, n), support, resistance)
        ELSE << >>

\* VolumeFlag with inclusive thresholds
VolumeFlagInclusive(volume_ratio) ==
    IF Ge(volume_ratio, Frac(15, 10))
    THEN << Obs("volume_high", TRUE) >>
    ELSE IF Le(volume_ratio, Frac(7, 10))
    THEN << Obs("volume_low", TRUE) >>
    ELSE << >>

VolumeFlag(volume_ratio) ==
    IF Gt(volume_ratio, Frac(15, 10))
    THEN << Obs("volume_high", TRUE) >>
    ELSE IF Lt(volume_ratio, Frac(7, 10))
    THEN << Obs("volume_low", TRUE) >>
    ELSE << >>

VolumeAnalysis(tbl) ==
    LET avg_volume == MeanVolume(tbl)
        recent_volume == Volume(tbl, Rows(tbl))
        volume_ratio == Div(Num(recent_volume), avg_volume)
    IN  << [kind |-> "volume", lead |-> TRUE, val |-> Num(recent_volume)],
           [kind |-> "avg_volume", lead |-> FALSE, val |-> avg_volume] >>
        \o VolumeFlag(volume_ratio)

\* analyze_trend with the range section ahead of the lookbacks
analyze_trend_reordered(tbl) ==
    BasicInformation(tbl)
    \o MovingAverages(tbl)
    \o SupportResistance(tbl)
    \o RecentPerformance(tbl)
    \o VolumeAnalysis(tbl)

analyze_trend(tbl) ==
    BasicInformation(tbl)
    \o MovingAverages(tbl)
    \o RecentPerformance(tbl)
    \o SupportResistance(tbl)
    \o VolumeAnalysis(tbl)

\* data['Close'] or data['Volume'] on a frame without the column: KeyError
AnalysisRaises(tbl) == ~(AllCols \subseteq tbl.cols)

(***************************************************************************)
(* The tables the provider may return.  A table has n rows; its closes are *)
(* a, then b over the last j rows, plus s per row; its volumes are v and   *)
(* w on the last row; its dates are consecutive days with k days skipped   *)
(* before the last m rows.  Dates ascend strictly and closes are positive. *)
(* Shifted(tbl, c) quotes every close of tbl c higher.                     *)
(***************************************************************************)
Table(n, a, b, j, s, v, w, k, m) ==
    [cols |-> AllCols,
     rows |-> [i \in 1..n |->
                [date |-> i + (IF i > n - m THEN k ELSE 0),
                 close |-> (IF i <= n - j THEN a ELSE b) + s * i,
                 volume |-> IF i < n THEN v ELSE w]]]

Shifted(tbl, c) ==
    [tbl EXCEPT !.rows = [i \in DOMAIN tbl.rows |->
                            [tbl.rows[i] EXCEPT !.close = @ + c]]]

Lengths ==
    (1..MaxShort)
    \cup ((LongWindow - MaxExtra)..(LongWindow + MaxExtra))
    \cup {YearRows}

Gaps == {0} \cup {d - e : d \in {WeekDays, MonthDays, YearDays}, e \in 0..MaxTail}

PriceTables ==
    {Shifted(Table(n, a, b, j, s, 1, 1, 0, 1), c) :
        n \in Lengths, a \in 1..MaxClose, b \in 1..MaxClose,
        j \in 1..MaxStep, s \in 0..MaxSlope, c \in {0, BasePrice}}

VolumeTables ==
    {Table(n, 1, 1, 1, 0, v, w, 0, 1) :
        n \in Lengths, v \in 0..MaxVol, w \in 0..MaxVol}

DateTables ==
    {Table(n, a, b, 1, 0, 1, w, k, m) :
        n \in Lengths, a \in {1, MaxClose}, b \in {1, MaxClose},
        w \in {1, MaxVol}, k \in Gaps, m \in 1..MaxTail}

\* a frame with no rows, and a frame that lacks the Close column
EmptyTable == [cols |-> AllCols, rows |-> << >>]

MalformedTable == [cols |-> {"Volume"}, rows |-> Table(2, 1, 1, 1, 0, 1, 1, 0, 1).rows]

Tables == PriceTables \cup VolumeTables \cup DateTables \cup {EmptyTable, MalformedTable}

(***************************************************************************)
(* main().  pc is the statement main is about to run.                      *)
(***************************************************************************)
TickerInputs == {"msft", "MSFT"}

PeriodInputs == {"", "1y"}

\* str.upper()
Upper(s) == IF s = "msft" THEN "MSFT" ELSE s

Line(l, a) == [line |-> l, arg |-> a]

NoTable == [cols |-> {}, rows |-> << >>]

\* an exception in flight: cls is "Exception" for an instance of Exception and
\* "BaseException" for one that is not (KeyboardInterrupt); at is the
\* statement that raised it
Raised(c, m, a) == [cls |-> c, msg |-> m, at |-> a]

NoExc == Raised("", "", "")

Init ==
    /\ pc = "prompt"
    /\ ticker = ""
    /\ period = ""
    /\ data = NoTable
    /\ analysis = << >>
    /\ stdout = << >>
    /\ shown = FALSE
    /\ exc = NoExc

\* lines 134-138: the banner and the two prompts; input() at end of input
\* raises EOFError before the try statement is entered
Prompt ==
    /\ pc = "prompt"
    /\ \/ \E t \in TickerInputs, p \in PeriodInputs :
            /\ ticker' = Upper(t)
            /\ period' = (IF p = "" THEN "1y" ELSE p)
            /\ pc' = "fetch"
            /\ exc' = exc
       \/ /\ pc' = "propagated"
          /\ exc' = Raised("Exception", "EOFError", pc)
          /\ UNCHANGED <<ticker, period>>
    /\ stdout' = stdout \o << Line("banner", ""), Line("rule", "") >>
    /\ UNCHANGED <<data, analysis, shown>>

\* Fetch placed ahead of the try statement
FetchOutsideTry ==
    /\ pc = "fetch"
    /\ \/ \E tbl \in Tables :
            /\ data' = tbl
            /\ pc' = "empty_check"
            /\ exc' = exc
       \/ /\ exc' = Raised("Exception", "fetch failed", pc)
          /\ pc' = "propagated"
          /\ data' = data
    /\ UNCHANGED <<ticker, period, analysis, stdout, shown>>

\* line 141: get_stock_data returns a frame or raises
Fetch ==
    /\ pc = "fetch"
    /\ \/ \E tbl \in Tables :
            /\ data' = tbl
            /\ pc' = "empty_check"
            /\ exc' = exc
       \/ /\ exc' = Raised("Exception", "fetch failed", pc)
          /\ pc' = "except"
          /\ data' = data
    /\ UNCHANGED <<ticker, period, analysis, stdout, shown>>

\* lines 142-146
CheckEmpty ==
    /\ pc = "empty_check"
    /\ IF Empty(data)
       THEN /\ stdout' = Append(stdout, Line("no_data", ticker))
            /\ pc' = "done"
       ELSE /\ stdout' = Append(stdout, Line("fetching", ""))
            /\ pc' = "analyze"
    /\ UNCHANGED <<ticker, period, data, analysis, shown, exc>>

\* line 149
Analyze ==
    /\ pc = "analyze"
    /\ IF AnalysisRaises(data)
       THEN /\ exc' = Raised("Exception", "'Close'", pc)
            /\ pc' = "except"
            /\ analysis' = analysis
       ELSE /\ analysis' = analyze_trend(data)
            /\ pc' = "print"
            /\ exc' = exc
    /\ UNCHANGED <<ticker, period, data, stdout, shown>>

\* "\n".join(explanations).split('\n'): an observation whose text starts
\* with a line break prints an empty line before its own
RECURSIVE Printed(_)
Printed(obs) ==
    IF obs = << >> THEN << >>
    ELSE LET o == obs[Len(obs)]
         IN  Printed(SubSeq(obs, 1, Len(obs) - 1))
             \o (IF o.lead THEN << Line("", "") >> ELSE << >>)
             \o << Line(o.kind, "") >>

\* lines 152-155
PrintAnalysis ==
    /\ pc = "print"
    /\ stdout' = stdout \o << Line("summary", ""), Line("rule", "") >>
                        \o Printed(analysis)
    /\ pc' = "plot"
    /\ UNCHANGED <<ticker, period, data, analysis, shown, exc>>

\* line 158: plot_stock_data opens the display, or fails
Plot ==
    /\ pc = "plot"
    /\ \/ /\ shown' = TRUE
          /\ pc' = "done"
          /\ exc' = exc
       \/ /\ shown' = TRUE
          /\ exc' = Raised("Exception", "plot failed", pc)
          /\ pc' = "except"
    /\ UNCHANGED <<ticker, period, data, analysis, stdout>>

\* a KeyboardInterrupt raised while a statement of the try block runs, or
\* while the handler prints
Interrupt ==
    /\ pc \in {"fetch", "empty_check", "analyze", "print", "plot", "except"}
    /\ exc' = Raised("BaseException", "KeyboardInterrupt", pc)
    /\ pc' = (IF pc = "except" THEN "propagated" ELSE "except")
    /\ UNCHANGED <<ticker, period, data, analysis, stdout, shown>>

\* "except Exception as e": a match prints the message and main returns;
\* anything else leaves main
Handler ==
    /\ pc = "except"
    /\ IF exc.cls = "Exception"
       THEN /\ stdout' = Append(stdout, Line("error", exc.msg))
            /\ pc' = "done"
       ELSE /\ stdout' = stdout
            /\ pc' = "propagated"
    /\ UNCHANGED <<ticker, period, data, analysis, shown, exc>>

Next ==
    \/ Prompt
    \/ Fetch
    \/ CheckEmpty
    \/ Analyze
    \/ PrintAnalysis
    \/ Plot
    \/ Interrupt
    \/ Handler

Spec == Init /\ [][Next]_vars

(***************************************************************************)
(* Vocabulary of the properties.                                           *)
(***************************************************************************)
\* analyze_trend has just returned: analysis holds its observations of data
Analyzed == pc = "print"

Has(k) == \E i \in DOMAIN analysis : analysis[i].kind = k

The(k) == analysis[CHOOSE i \in DOMAIN analysis : analysis[i].kind = k]

N == Rows(data)

StrictlyIncreasing ==
    \A i \in 1..(N - 1) : Close(data, i) < Close(data, i + 1)

ConstantPositiveVolume ==
    /\ Volume(data, 1) > 0
    /\ \A i \in 1..N : Volume(data, i) = Volume(data, 1)

\* the mean close of the w rows ending at row i, or of all i rows when the
\* table does not yet hold w
TrailingMean(w, i) ==
    LET lo == IF i > w THEN i - w + 1 ELSE 1
    IN  Frac(SumClose(data, lo, i), i - lo + 1)

TrailingCloses == {Close(data, i) : i \in (N - RangeWindow + 1)..N}

RangeLow == CHOOSE x \in TrailingCloses : \A y \in TrailingCloses : x <= y

RangeHigh == CHOOSE x \in TrailingCloses : \A y \in TrailingCloses : x >= y

NearHigh == Close(data, N) * 100 >= RangeHigh * 98

NearLow == Close(data, N) * 100 <= RangeLow * 102

TotalVolume == SumVolume(data, 1, N)

\* the place of an observation in the checklist
Rank(k) ==
    CASE k = "price" -> 1
      [] k = "daily" -> 2
      [] k = "ma50" -> 3
      [] k = "ma200" -> 4
      [] k \in {"golden", "death"} -> 5
      [] k = "week" -> 6
      [] k = "month" -> 7
      [] k = "year" -> 8
      [] k = "support" -> 9
      [] k = "resistance" -> 10
      [] k \in {"near_resistance", "near_support"} -> 11
      [] k = "volume" -> 12
      [] k = "avg_volume" -> 13
      [] k \in {"volume_high", "volume_low"} -> 14

(***************************************************************************)
(* C1. On a table of exactly 200 rows whose 50-day average goes from at    *)
(* most the 200-day average on the second-to-last day to above it on the   *)
(* last day, the Golden Cross observation is emitted and the Death Cross   *)
(* observation is not.  On the second-to-last day the table holds 199      *)
(* rows, so its long average there is the mean of those.                   *)
(***************************************************************************)
C1_GoldenCrossAt200 ==
    (/\ Analyzed
     /\ N = LongWindow
     /\ Le(TrailingMean(ShortWindow, N - 1), TrailingMean(LongWindow, N - 1))
     /\ Gt(TrailingMean(ShortWindow, N), TrailingMean(LongWindow, N)))
    => Has("golden") /\ ~Has("death")

(***************************************************************************)
(* C2 as stated. With at least 20 rows, the last close is never both       *)
(* within 2% of resistance and within 2% of support, so each warning is    *)
(* emitted whenever its own condition holds.                               *)
(***************************************************************************)
C2_ProximityExclusive ==
    (Analyzed /\ N >= RangeWindow)
    => /\ ~(NearHigh /\ NearLow)
       /\ NearHigh => Has("near_resistance")
       /\ NearLow => Has("near_support")

(***************************************************************************)
(* C2 as amended. With at least 20 rows, the near-resistance warning is    *)
(* emitted exactly when current >= 0.98 * resistance, the near-support     *)
(* warning exactly when current <= 1.02 * support and the near-resistance  *)
(* condition fails, and never both; the two conditions can hold together.  *)
(***************************************************************************)
C2_ProximityWarning ==
    (Analyzed /\ N >= RangeWindow)
    => /\ Has("near_resistance") <=> NearHigh
       /\ Has("near_support") <=> (NearLow /\ ~NearHigh)
       /\ ~(Has("near_resistance") /\ Has("near_support"))

C2_Witness ==
    /\ Analyzed
    /\ N >= RangeWindow
    /\ NearHigh
    /\ NearLow
    /\ RangeLow < RangeHigh
    /\ Has("near_resistance")
    /\ ~Has("near_support")

(***************************************************************************)
(* C3. With a positive mean volume and ratio = last volume / mean volume   *)
(* of the whole table, the higher-than-average flag is emitted exactly     *)
(* when ratio > 1.5 and the lower-than-average flag exactly when           *)
(* ratio < 0.7 (so neither within [0.7, 1.5]).                             *)
(***************************************************************************)
C3_VolumeFlag ==
    (Analyzed /\ TotalVolume > 0)
    => /\ Has("volume_high") <=> 10 * Volume(data, N) * N > 15 * TotalVolume
       /\ Has("volume_low") <=> 10 * Volume(data, N) * N < 7 * TotalVolume

C3_Witness ==
    /\ Analyzed
    /\ TotalVolume > 0
    /\ Volume(data, N) * N = 2 * TotalVolume
    /\ Has("volume_high")

(***************************************************************************)
(* C4. For each offset d of 7, 30 and 365 days, the d-day change is        *)
(* emitted if and only if some row is dated exactly d days before the last *)
(* row, and then it reports (current - that close) / that close * 100; a   *)
(* gap at that date omits the observation and the analysis completes.      *)
(***************************************************************************)
LookbackExact(d, k) ==
    LET at == {i \in 1..N : Date(data, i) = Date(data, N) - d}
    IN  /\ Has(k) <=> at # {}
        /\ \A i \in at :
              /\ Eq(The(k).pct,
                    Frac((Close(data, N) - Close(data, i)) * 100, Close(data, i)))
              /\ The(k).sign = (IF Close(data, N) >= Close(data, i) THEN "+" ELSE "")

C4_LookbackExactDate ==
    Analyzed
    => /\ LookbackExact(WeekDays, "week")
       /\ LookbackExact(MonthDays, "month")
       /\ LookbackExact(YearDays, "year")

\* the table spans more than a month; the day a week back falls in a gap and
\* its change is omitted, the day a month back has a row at another price
C4_Witness ==
    /\ Analyzed
    /\ Date(data, N) - Date(data, 1) > MonthDays
    /\ ~Has("week")
    /\ Has("month")
    /\ Gt(The("month").pct, Num(0))

(***************************************************************************)
(* C5 as stated. On strictly increasing closes with at least 20 rows,      *)
(* resistance is the last close and support is the close of row n-20 (of   *)
(* rows 1..n), where the table has such a row.                             *)
(***************************************************************************)
C5_SupportTwentyBack ==
    (Analyzed /\ N >= RangeWindow /\ StrictlyIncreasing)
    => /\ Eq(The("resistance").val, Num(Close(data, N)))
       /\ N > RangeWindow
            => Eq(The("support").val, Num(Close(data, N - RangeWindow)))

(***************************************************************************)
(* C5 as amended. On strictly increasing closes with at least 20 rows,     *)
(* resistance is the last close and support is the close of row n-19, the  *)
(* first of the trailing 20 rows.                                          *)
(***************************************************************************)
C5_SupportFirstOfTail ==
    (Analyzed /\ N >= RangeWindow /\ StrictlyIncreasing)
    => /\ Eq(The("resistance").val, Num(Close(data, N)))
       /\ Eq(The("support").val, Num(Close(data, N - RangeWindow + 1)))

C5_Witness ==
    /\ Analyzed
    /\ N = YearRows
    /\ StrictlyIncreasing
    /\ Close(data, 1) > BasePrice
    /\ Eq(The("support").val, Num(Close(data, N - RangeWindow + 1)))
    /\ ~Eq(The("support").val, Num(Close(data, N - RangeWindow)))

(***************************************************************************)
(* C6. On strictly increasing closes with constant positive volume and at  *)
(* least 200 rows: the daily change is positive, the latest 50-day average *)
(* exceeds the latest 200-day average, neither cross is emitted and no     *)
(* volume flag is emitted.                                                 *)
(***************************************************************************)
C6_MonotonicSeries ==
    (Analyzed /\ N >= LongWindow /\ StrictlyIncreasing /\ ConstantPositiveVolume)
    => /\ Gt(The("daily").val, Num(0))
       /\ Gt(The("daily").pct, Num(0))
       /\ Has("ma50") /\ Has("ma200")
       /\ Gt(The("ma50").val, The("ma200").val)
       /\ ~Has("golden") /\ ~Has("death")
       /\ ~Has("volume_high") /\ ~Has("volume_low")

C6_Witness ==
    /\ Analyzed
    /\ N = YearRows
    /\ StrictlyIncreasing
    /\ ConstantPositiveVolume
    /\ Gt(The("ma50").val, The("ma200").val)
    /\ ~Has("golden")

(***************************************************************************)
(* C7 as stated. After the prompts: an empty fetch prints the no-data      *)
(* message and returns without analysis or rendering; any exception raised *)
(* by the fetch or the analysis is caught, its message printed, nothing    *)
(* rendered, and none leaves main; the renderer runs only after the whole  *)
(* analysis has been printed.                                              *)
(***************************************************************************)
Fetched == data # NoTable

LastLine == stdout[Len(stdout)]

AnalysisPrinted ==
    LET body == << Line("summary", ""), Line("rule", "") >> \o Printed(analysis)
    IN  /\ analysis # << >>
        /\ Len(stdout) >= 3 + Len(body)
        /\ SubSeq(stdout, 4, 3 + Len(body)) = body

EmptyFetchReturns ==
    (Fetched /\ Empty(data))
    => /\ analysis = << >>
       /\ ~shown
       /\ pc = "done" => LastLine = Line("no_data", ticker)

RendererAfterPrint == shown => AnalysisPrinted

C7_AnyExceptionCaught ==
    /\ EmptyFetchReturns
    /\ RendererAfterPrint
    /\ exc.at \in {"fetch", "analyze"}
         => /\ pc \in {"except", "done"}
            /\ ~shown
            /\ pc = "done" => LastLine = Line("error", exc.msg)

(***************************************************************************)
(* C7 as amended. As stated, for an exception that is an instance of       *)
(* Exception and a run no KeyboardInterrupt (or other exception outside    *)
(* Exception) cuts short: such an exception is not caught by the handler   *)
(* and leaves main.                                                        *)
(***************************************************************************)
C7_ExceptionCaught ==
    /\ EmptyFetchReturns
    /\ RendererAfterPrint
    /\ (exc.cls = "Exception" /\ exc.at \in {"fetch", "analyze"})
         => /\ pc \in {"except", "done"}
            /\ ~shown
            /\ pc = "done" => LastLine = Line("error", exc.msg)
    /\ (pc = "propagated" /\ exc.at # "prompt") => exc.cls = "BaseException"
    /\ (pc = "empty_check" /\ Empty(data)) => ENABLED CheckEmpty
    /\ (pc = "except" /\ exc.cls = "Exception") => ENABLED Handler

C7_Witness ==
    /\ pc = "done"
    /\ exc.cls = "Exception"
    /\ exc.at = "analyze"
    /\ LastLine = Line("error", exc.msg)
    /\ ~shown

(***************************************************************************)
(* C8. The observations of a non-empty table follow the checklist order    *)
(* (price, daily change, averages, cross, week, month, year, support,      *)
(* resistance, proximity, volume lines, volume flag) whichever optional    *)
(* ones are omitted, and the price, daily-change, recent-volume and        *)
(* average-volume lines are always there.                                  *)
(***************************************************************************)
C8_ChecklistOrder ==
    Analyzed
    => /\ \A i, h \in DOMAIN analysis :
             i < h => Rank(analysis[i].kind) < Rank(analysis[h].kind)
       /\ Has("price") /\ Has("daily") /\ Has("volume") /\ Has("avg_volume")

C8_Witness ==
    /\ Analyzed
    /\ Has("golden")
    /\ Has("week")
    /\ Has("near_resistance")
    /\ Has("volume_high")
    /\ Has("month")
    /\ ~Has("year")

(***************************************************************************)
(* C9. Support and resistance (and a proximity warning) are emitted if and *)
(* only if the table has at least 20 rows, the two averages (and a cross   *)
(* signal) if and only if it has at least 200; a shorter table skips them  *)
(* and still yields the other observations.                                *)
(***************************************************************************)
C9_ConditionalInclusion ==
    /\ Analyzed
       => /\ Has("support") <=> N >= RangeWindow
          /\ Has("resistance") <=> N >= RangeWindow
          /\ (Has("near_resistance") \/ Has("near_support")) => N >= RangeWindow
          /\ Has("ma50") <=> N >= LongWindow
          /\ Has("ma200") <=> N >= LongWindow
          /\ (Has("golden") \/ Has("death")) => N >= LongWindow
          /\ Has("price") /\ Has("daily") /\ Has("volume") /\ Has("avg_volume")
    /\ (exc.at = "analyze" /\ exc.cls = "Exception") => ~(AllCols \subseteq data.cols)

C9_Witness ==
    /\ Analyzed
    /\ N = LongWindow - 1
    /\ Has("support")
    /\ ~Has("ma50")
    /\ Has("avg_volume")

(***************************************************************************)
(* C10. On a table of one row the previous close is the current close:     *)
(* the daily change and its percentage are both 0.                         *)
(***************************************************************************)
C10_SingleRow ==
    (Analyzed /\ N = 1)
    => /\ Eq(The("daily").val, Num(0))
       /\ Eq(The("daily").pct, Num(0))
       /\ The("daily").sign = "+"
       /\ The("daily").pct_sign = "+"

C10_Witness ==
    /\ Analyzed
    /\ N = 1
    /\ Close(data, 1) > 1
    /\ Has("daily")

====
